---- MODULE Spec2Model ----
(***************************************************************************)
(* A model of the HID report-descriptor engine of hid-bench:               *)
(*   - the short-item tokenizer        (src/src/hid/basic.rs,              *)
(*                                      src/hid-parser/src/basic.rs)       *)
(*   - the descriptor assembler        (src/src/hid/parser.rs)             *)
(*   - the report decoder              (src/src/hid/parser.rs,             *)
(*                                      src/src/hid/report.rs,             *)
(*                                      src/src/hid/collection.rs)         *)
(*                                                                         *)
(* Numbers.  The model checker's integers are 32-bit signed, the program's *)
(* u32 values are not.  A u32 is therefore held as its two 16-bit halves,  *)
(* [hi |-> 0..65535, lo |-> 0..65535]; i32, u16 and u8 values and usize    *)
(* indices that stay small are plain integers.  Arithmetic that can        *)
(* overflow reports it: a debug build panics on overflow, a release build  *)
(* wraps, and the variable build says which one runs.                      *)
(***************************************************************************)
EXTENDS Integers, Sequences, FiniteSets, TLC

VARIABLES
    build,      \* "debug" | "release": overflow checks on or off
    \* ---- tokenizer (BasicItems) ----
    bytes,      \* BasicItems.bytes: the descriptor
    offset,     \* BasicItems.offset
    tok,        \* outcome of the last call of next: "start" | "some" | "none" | "panic"
    yielded,    \* the items next has returned so far, each with the offset and size it was read at
    \* ---- one call of Report::extract_value ----
    xcase,      \* the arguments: [report, bit_offset, bit_length] and the value written there
    xres,       \* None before the call, Some([file, panic, value]) after it
    \* ---- assembler (ReportParser::read_items) ----
    pool,            \* the items the descriptor being read is made of
    state_table,     \* StateTable: global and local
    collection_stack,
    bit_offset,
    status,          \* "running" | "returned" | "panic"
    panic_msg,       \* the panic message
    result,          \* Some(the Collection read_items returned)
    seen,            \* what has been read so far: see SeenStart
    \* ---- decoder (ReportParser::parse_input, Report::parse) ----
    parser,          \* the ReportParser: [collection |-> the tree read_items returned]
    input_report,    \* the report buffer
    decoded,         \* None, or Some(the outcome of parse_input)
    leaves,          \* None, or Some(the outcome of one call of Report::parse)
    \* ---- one call of Report::signed or ReportParser::qualify_usage ----
    call,            \* the function called and its arguments
    ret              \* None before the call, Some(what it returned, or its panic) after it

tokvars == <<bytes, offset, tok, yielded>>
extvars == <<xcase, xres>>
asmvars == <<pool, state_table, collection_stack, bit_offset, status, panic_msg, result, seen>>
decvars == <<parser, input_report, decoded, leaves>>
callvars == <<call, ret>>
vars == <<build, bytes, offset, tok, yielded, xcase, xres,
          pool, state_table, collection_stack, bit_offset, status, panic_msg, result, seen,
          parser, input_report, decoded, leaves, call, ret>>

Builds == {"debug", "release"}

(***************************************************************************)
(* Bounds of the model.                                                    *)
(***************************************************************************)
MaxDescLen == 5
MaxBitOffset == 9
MaxItems == 9
MaxMembers == 2

(***************************************************************************)
(* Option<T>.                                                              *)
(***************************************************************************)
None == [some |-> FALSE]
Some(x) == [some |-> TRUE, v |-> x]

(***************************************************************************)
(* u32 values and their bit operations.                                    *)
(***************************************************************************)
Half == 2 ^ 16

U32(n) == [hi |-> n \div Half, lo |-> n % Half]

Zero32 == [hi |-> 0, lo |-> 0]

Pow2(n) == 2 ^ n

\* the set of positions of the one bits of a u32
BitsOf(u) ==
    {b \in 0..15 : (u.lo \div Pow2(b)) % 2 = 1}
        \cup {b + 16 : b \in {c \in 0..15 : (u.hi \div Pow2(c)) % 2 = 1}}

RECURSIVE SumPow(_, _)
SumPow(S, base) ==
    IF S = {} THEN 0
    ELSE LET b == CHOOSE x \in S : TRUE
         IN  Pow2(b - base) + SumPow(S \ {b}, base)

FromBits(S) ==
    [hi |-> SumPow({b \in S : b >= 16 /\ b <= 31}, 16),
     lo |-> SumPow({b \in S : b >= 0 /\ b <= 15}, 0)]

Or32(a, b) == FromBits(BitsOf(a) \cup BitsOf(b))
And32(a, b) == FromBits(BitsOf(a) \cap BitsOf(b))
Not32(a) == FromBits((0..31) \ BitsOf(a))
\* a << n and a >> n for 0 <= n <= 31 (the shifts the hardware performs)
Shl32(a, n) == FromBits({b + n : b \in BitsOf(a)} \cap (0..31))
Shr32(a, n) == FromBits({b - n : b \in BitsOf(a)} \cap (0..31))

\* data as i32, as u16, as u8
AsI32(u) == IF u.hi >= 32768 THEN (u.hi - Half) * Half + u.lo ELSE u.hi * Half + u.lo
AsU16(u) == u.lo
AsU8(u) == u.lo % 256

(***************************************************************************)
(* Exact arithmetic on u32 values.  A product or sum is first computed     *)
(* exactly, as [hi, lo] with lo < 2^16 and hi unbounded, and then checked  *)
(* against the 32-bit width.                                               *)
(***************************************************************************)
\* the exact product of two 16-bit numbers
Mul16(x, y) ==
    LET p1 == (x \div 256) * y
        p0 == (x % 256) * y
        low == (p1 % 256) * 256 + p0
    IN  [hi |-> (p1 \div 256) + (low \div Half), lo |-> low % Half]

WideAdd(a, b) ==
    [hi |-> a.hi + b.hi + ((a.lo + b.lo) \div Half), lo |-> (a.lo + b.lo) % Half]

WideMul(a, b) ==
    LET ll == Mul16(a.lo, b.lo)
    IN  [hi |-> (a.hi * b.hi) * Half + a.hi * b.lo + a.lo * b.hi + ll.hi, lo |-> ll.lo]

WideLess(a, b) == a.hi < b.hi \/ (a.hi = b.hi /\ a.lo < b.lo)

\* the u32 result of an operation whose exact result is w: the low 32 bits,
\* and whether the exact result did not fit
Checked32(w) == [overflow |-> w.hi >= Half, value |-> [hi |-> w.hi % Half, lo |-> w.lo]]

(***************************************************************************)
(* Tokenizer: BasicItems::item_header.                                     *)
(***************************************************************************)
sizes == <<0, 1, 2, 4>>

\* a header whose tag is read from the low four bits
item_header_tag_low_nibble(header) ==
    [size |-> sizes[(header % 4) + 1],
     item_type |-> (header \div 4) % 4,
     tag |-> header % 16]

item_header(header) ==
    [size |-> sizes[(header % 4) + 1],
     item_type |-> (header \div 4) % 4,
     tag |-> header \div 16]

(***************************************************************************)
(* Tokenizer: the item constructors.                                       *)
(***************************************************************************)
\* a mapping with the first two collection types swapped
Collection_new_application_first(data) ==
    CASE data = 0 -> [ct |-> "Application"]
      [] data = 1 -> [ct |-> "Physical"]
      [] data = 2 -> [ct |-> "Logical"]
      [] data = 3 -> [ct |-> "Report"]
      [] data = 4 -> [ct |-> "NamedArray"]
      [] data = 5 -> [ct |-> "UsageSwitch"]
      [] data = 6 -> [ct |-> "UsageModifier"]
      [] data >= 7 /\ data < 127 -> [ct |-> "Reserved"]
      [] OTHER -> [ct |-> "Vendor", n |-> data]

\* basic::Collection::new: the collection type of a data byte
Collection_new(data) ==
    CASE data = 0 -> [ct |-> "Physical"]
      [] data = 1 -> [ct |-> "Application"]
      [] data = 2 -> [ct |-> "Logical"]
      [] data = 3 -> [ct |-> "Report"]
      [] data = 4 -> [ct |-> "NamedArray"]
      [] data = 5 -> [ct |-> "UsageSwitch"]
      [] data = 6 -> [ct |-> "UsageModifier"]
      [] data >= 7 /\ data < 127 -> [ct |-> "Reserved"]
      [] OTHER -> [ct |-> "Vendor", n |-> data]

MainItem_new(tag, data) ==
    CASE tag = 8 -> [k |-> "Input", data |-> data]
      [] tag = 9 -> [k |-> "Output", data |-> data]
      [] tag = 11 -> [k |-> "Feature", data |-> data]
      [] tag = 10 -> [k |-> "Collection", c |-> Collection_new(AsU8(data))]
      [] tag = 12 -> [k |-> "EndCollection"]
      [] OTHER -> [k |-> "Reserved"]

GlobalItem_new(tag, data) ==
    CASE tag = 0 -> [k |-> "UsagePage", v |-> AsU16(data)]
      [] tag = 1 -> [k |-> "LogicalMinimum", v |-> AsI32(data)]
      [] tag = 2 -> [k |-> "LogicalMaximum", v |-> AsI32(data)]
      [] tag = 3 -> [k |-> "PhysicalMinimum", v |-> AsI32(data)]
      [] tag = 4 -> [k |-> "PhysicalMaximum", v |-> AsI32(data)]
      [] tag = 5 -> [k |-> "UnitExponent", v |-> data]
      [] tag = 6 -> [k |-> "Unit", v |-> data]
      [] tag = 7 -> [k |-> "ReportSize", v |-> data]
      [] tag = 8 -> [k |-> "ReportID", v |-> AsU8(data)]
      [] tag = 9 -> [k |-> "ReportCount", v |-> data]
      [] tag = 10 -> [k |-> "Push"]
      [] tag = 11 -> [k |-> "Pop"]
      [] OTHER -> [k |-> "Reserved"]

LocalItem_new(tag, data, size) ==
    CASE tag = 0 /\ size \in {1, 2} -> [k |-> "Usage", v |-> AsU16(data)]
      [] tag = 0 /\ size = 4 -> [k |-> "ExtendedUsage", p |-> data.hi, v |-> data.lo % 256]
      [] tag = 1 /\ size \in {1, 2} -> [k |-> "UsageMinimum", v |-> AsU16(data)]
      [] tag = 1 /\ size = 4 -> [k |-> "ExtendedUsageMinimum", p |-> data.hi, v |-> data.lo % 256]
      [] tag = 2 /\ size \in {1, 2} -> [k |-> "UsageMaximum", v |-> AsU16(data)]
      [] tag = 2 /\ size = 4 -> [k |-> "ExtendedUsageMaximum", p |-> data.hi, v |-> data.lo % 256]
      [] tag = 3 -> [k |-> "DesignatorIndex", v |-> data]
      [] tag = 4 -> [k |-> "DesignatorMinimum", v |-> data]
      [] tag = 5 -> [k |-> "DesignatorMaximum", v |-> data]
      [] tag = 6 -> [k |-> "StringIndex", v |-> data]
      [] tag = 7 -> [k |-> "StringMinimum", v |-> data]
      [] tag = 8 -> [k |-> "StringMaximum", v |-> data]
      [] tag = 9 -> [k |-> "Delimiter", v |-> (data # Zero32)]
      [] OTHER -> [k |-> "Reserved"]

BasicItem_new(item_type, tag, data, size) ==
    CASE item_type = 0 -> [t |-> "Main", i |-> MainItem_new(tag, data)]
      [] item_type = 1 -> [t |-> "Global", i |-> GlobalItem_new(tag, data)]
      [] item_type = 2 -> [t |-> "Local", i |-> LocalItem_new(tag, data, size)]
      [] OTHER -> [t |-> "Reserved"]

(***************************************************************************)
(* Tokenizer: <BasicItems as Iterator>::next.                              *)
(***************************************************************************)
\* the loop that builds data from the little-endian payload bytes; indexing
\* past the end of the slice panics
RECURSIVE data_loop(_, _, _, _, _)
data_loop(bs, off, size, byte_idx, data) ==
    IF byte_idx >= size THEN [panic |-> FALSE, data |-> data]
    ELSE IF off + 1 + byte_idx >= Len(bs) THEN [panic |-> TRUE, data |-> data]
    ELSE data_loop(bs, off, size, byte_idx + 1,
                   Or32(data, Shl32(U32(bs[off + 1 + byte_idx + 1]), byte_idx * 8)))

\* next with an offset that advances by the payload alone, not by the header
BasicItems_next_no_header_byte(bs, off) ==
    IF off >= Len(bs) THEN [ret |-> "none", offset |-> off]
    ELSE LET h == item_header(bs[off + 1])
             d == data_loop(bs, off, h.size, 0, Zero32)
         IN  IF d.panic THEN [ret |-> "panic", offset |-> off]
             ELSE [ret |-> "some",
                   offset |-> off + h.size,
                   size |-> h.size,
                   item |-> BasicItem_new(h.item_type, h.tag, d.data, h.size)]

\* one call of next on the iterator (bs, off): what it returns and the new offset
BasicItems_next(bs, off) ==
    IF off >= Len(bs) THEN [ret |-> "none", offset |-> off]
    ELSE LET h == item_header(bs[off + 1])
             d == data_loop(bs, off, h.size, 0, Zero32)
         IN  IF d.panic THEN [ret |-> "panic", offset |-> off]
             ELSE [ret |-> "some",
                   offset |-> off + h.size + 1,
                   size |-> h.size,
                   item |-> BasicItem_new(h.item_type, h.tag, d.data, h.size)]

(***************************************************************************)
(* The tokenizer as a state machine: a caller that keeps calling next.     *)
(***************************************************************************)
\* descriptor bytes that occur as headers of every size and as payload
BytePool == {5, 38, 23, 192, 254}

RECURSIVE SeqsUpTo(_, _)
SeqsUpTo(S, n) ==
    IF n = 0 THEN {<<>>}
    ELSE LET shorter == SeqsUpTo(S, n - 1)
         IN  shorter \cup {Append(q, x) : q \in {r \in shorter : Len(r) = n - 1}, x \in S}

\* one item of every header byte, with four bytes after it
HeaderCases == {<<h, 129, 38, 23, 11>> : h \in 0..255}

TokInit ==
    /\ bytes \in SeqsUpTo(BytePool, MaxDescLen) \cup HeaderCases
    /\ offset = 0
    /\ tok = "start"
    /\ yielded = <<>>

TokIdle ==
    /\ bytes = <<>>
    /\ offset = 0
    /\ tok = "start"
    /\ yielded = <<>>

Next_item ==
    /\ tok # "panic"
    /\ LET r == BasicItems_next(bytes, offset)
       IN  /\ tok' = r.ret
           /\ offset' = r.offset
           /\ yielded' = IF r.ret = "some"
                         THEN Append(yielded, [at |-> offset, size |-> r.size, item |-> r.item])
                         ELSE yielded
    /\ UNCHANGED <<build, bytes, extvars, asmvars, decvars, callvars>>

(***************************************************************************)
(* Decoder: Report::extract_value.                                         *)
(***************************************************************************)
Ones32 == [hi |-> Half - 1, lo |-> Half - 1]

\* the loop that ors the bytes of the slice into value; the shift amount
\* 8 * byte overflows the 32-bit shift from the fifth byte on
RECURSIVE bytes_loop(_, _, _, _)
bytes_loop(b, bs, byte, value) ==
    IF byte >= Len(bs) THEN [panic |-> FALSE, value |-> value]
    ELSE IF 8 * byte >= 32 /\ b = "debug" THEN [panic |-> TRUE, value |-> value]
    ELSE bytes_loop(b, bs, byte + 1,
                    Or32(value, Shl32(U32(bs[byte + 1]), (8 * byte) % 32)))

\* the slice &report[first_byte..=last_byte], or a panic
report_slice(report, at_bit, bit_length) ==
    IF at_bit + bit_length = 0 THEN [panic |-> TRUE]
    ELSE LET first_byte == at_bit \div 8
             last_byte == (at_bit + bit_length - 1) \div 8
         IN  IF last_byte + 1 > Len(report) \/ first_byte > last_byte + 1
             THEN [panic |-> TRUE]
             ELSE [panic |-> FALSE, bytes |-> SubSeq(report, first_byte + 1, last_byte + 1)]

\* value & !(0xFFFFFFFF << n); a shift by 32 or more overflows
mask_low(b, value, n) ==
    IF n >= 32 /\ b = "debug" THEN [panic |-> TRUE, value |-> value]
    ELSE [panic |-> FALSE, value |-> And32(value, Not32(Shl32(Ones32, n % 32)))]

\* src/src/hid/report.rs
extract_value(b, report, at_bit, bit_length) ==
    LET sl == report_slice(report, at_bit, bit_length)
    IN  IF sl.panic THEN [panic |-> TRUE, value |-> Zero32]
        ELSE LET acc == bytes_loop(b, sl.bytes, 0, Zero32)
             IN  IF acc.panic THEN [panic |-> TRUE, value |-> Zero32]
                 ELSE mask_low(b, Shr32(acc.value, at_bit % 8), bit_length)

\* src/src/hid/parser.rs: the same, but the mask keeps bit_length + 1 bits
parser_extract_value(b, report, at_bit, bit_length) ==
    LET sl == report_slice(report, at_bit, bit_length)
    IN  IF sl.panic THEN [panic |-> TRUE, value |-> Zero32]
        ELSE LET acc == bytes_loop(b, sl.bytes, 0, Zero32)
             IN  IF acc.panic THEN [panic |-> TRUE, value |-> Zero32]
                 ELSE mask_low(b, Shr32(acc.value, at_bit % 8), bit_length + 1)

(***************************************************************************)
(* Decoder: Report::signed.                                                *)
(***************************************************************************)
\* 1 << (length - 1), where length - 1 underflows for length 0 and the shift
\* overflows from length 33 on
sign_shift(b, length) ==
    IF (length = 0 \/ length > 32) /\ b = "debug" THEN [panic |-> TRUE, n |-> 0]
    ELSE [panic |-> FALSE, n |-> (length + 31) % 32]

\* signed without the sign extension: the number bits alone
signed_no_extension(b, value, length) ==
    LET sh == sign_shift(b, length)
        number_mask == Not32(Shl32(Ones32, sh.n))
    IN  IF sh.panic THEN [panic |-> TRUE, value |-> 0]
        ELSE [panic |-> FALSE, value |-> AsI32(And32(value, number_mask))]

\* src/src/hid/report.rs
signed(b, value, length) ==
    LET sh == sign_shift(b, length)
        sign_mask == Shl32(U32(1), sh.n)
        number_mask == Not32(Shl32(Ones32, sh.n))
        unsinged_number == And32(value, number_mask)
    IN  IF sh.panic THEN [panic |-> TRUE, value |-> 0]
        ELSE IF And32(value, sign_mask) # Zero32
        THEN [panic |-> FALSE, value |-> AsI32(Or32(unsinged_number, Not32(number_mask)))]
        ELSE [panic |-> FALSE, value |-> AsI32(unsinged_number)]

\* src/src/hid/parser.rs
parser_signed(b, value, length) ==
    LET sh == sign_shift(b, length)
        sign_mask == Shl32(U32(1), sh.n)
        number_mask == Not32(sign_mask)
        first == Checked32(WideAdd(And32(value, number_mask), number_mask))
        second == Checked32(WideAdd(first.value, U32(1)))
    IN  IF sh.panic THEN [panic |-> TRUE, value |-> 0]
        ELSE IF And32(value, sign_mask) # Zero32
        THEN IF (first.overflow \/ second.overflow) /\ b = "debug"
             THEN [panic |-> TRUE, value |-> 0]
             ELSE [panic |-> FALSE, value |-> AsI32(second.value)]
        ELSE [panic |-> FALSE, value |-> AsI32(And32(value, number_mask))]

(***************************************************************************)
(* Decoder: Report::parse.                                                 *)
(***************************************************************************)
\* a u32 or usize as a number of the model (it must be below 2^31)
ToNat(u) == u.hi * Half + u.lo

\* usages that start over from the first one when they run out
usage_of_starting_over(b, r, i) ==
    LET spec_usages == Len(r.usages)
    IN  IF spec_usages = 0 THEN [panic |-> TRUE, usage |-> <<0, 0>>]
        ELSE [panic |-> FALSE, usage |-> r.usages[(i % spec_usages) + 1]]

\* the usage of control i
usage_of(b, r, i) ==
    LET spec_usages == Len(r.usages)
    IN  IF i < spec_usages THEN [panic |-> FALSE, usage |-> r.usages[i + 1]]
        ELSE IF r.usage_minimum.some
        THEN LET up == r.usage_minimum.v[1]
                 first == r.usage_minimum.v[2] + (spec_usages % Half)
                 second == (first % Half) + (i % Half)
             IN  IF (first >= Half \/ second >= Half) /\ b = "debug"
                 THEN [panic |-> TRUE, usage |-> <<0, 0>>]
                 ELSE [panic |-> FALSE, usage |-> <<up, second % Half>>]
        ELSE IF spec_usages = 0 THEN [panic |-> TRUE, usage |-> <<0, 0>>]
        ELSE [panic |-> FALSE, usage |-> r.usages[spec_usages]]

\* Report::parse stands in two files, each with its own signed and
\* extract_value: file says which one runs
signed_of(file, b, value, length) ==
    IF file = "report.rs" THEN signed(b, value, length) ELSE parser_signed(b, value, length)

extract_value_of(file, b, report, at_bit, bit_length) ==
    IF file = "report.rs" THEN extract_value(b, report, at_bit, bit_length)
    ELSE parser_extract_value(b, report, at_bit, bit_length)

\* the InputValue of the bits base_value of a control of r
input_value(file, b, r, base_value) ==
    IF r.logical_minimum = 0 /\ r.logical_maximum = 1
    THEN [panic |-> FALSE, value |-> [k |-> "Bool", v |-> base_value # Zero32]]
    ELSE IF r.logical_minimum >= 0 /\ r.logical_maximum >= 0
    THEN [panic |-> FALSE, value |-> [k |-> "UInt", v |-> base_value]]
    ELSE LET sg == signed_of(file, b, base_value, ToNat(r.report_size))
         IN  [panic |-> sg.panic, value |-> [k |-> "Int", v |-> sg.value]]

\* controls packed one bit apart, whatever their size
control_offset_one_bit_apart(r, i) == ToNat(r.bit_offset) + i

\* the bit offset control i of r is read at
control_offset(r, i) == ToNat(r.bit_offset) + ToNat(r.report_size) * i

\* control i of r: its usage and the value read from the report
parse_control(file, b, r, report, i) ==
    LET us == usage_of(b, r, i)
        base == extract_value_of(file, b, report, control_offset(r, i), ToNat(r.report_size))
        val == input_value(file, b, r, base.value)
    IN  IF us.panic \/ base.panic \/ val.panic THEN [panic |-> TRUE]
        ELSE [panic |-> FALSE, input |-> [usage |-> us.usage, value |-> val.value]]

parse_of(file, b, r, report) ==
    IF r.report_type.flags.lo % 2 = 1 THEN [panic |-> FALSE, inputs |-> <<>>]
    ELSE LET n == ToNat(r.report_count)
             controls == [i \in 1..n |-> parse_control(file, b, r, report, i - 1)]
         IN  IF \E i \in 1..n : controls[i].panic THEN [panic |-> TRUE, inputs |-> <<>>]
             ELSE [panic |-> FALSE, inputs |-> [i \in 1..n |-> controls[i].input]]

\* src/src/hid/report.rs
Report_parse(b, r, report) == parse_of("report.rs", b, r, report)

\* src/src/hid/parser.rs
parser_Report_parse(b, r, report) == parse_of("parser.rs", b, r, report)

(***************************************************************************)
(* Decoder: Collection::map and ReportParser::parse_input.                 *)
(***************************************************************************)
\* a map that leaves out the Fields the closure makes an empty list of
RECURSIVE Collection_map_drop_empty(_, _)
Collection_map_drop_empty(c, f) ==
    LET kept == SelectSeq(c.items, LAMBDA item : item.tag = "Collection" \/ f[item.r] # <<>>)
    IN  [collection_type |-> c.collection_type,
         usage |-> c.usage,
         designator_index |-> c.designator_index,
         string_index |-> c.string_index,
         items |-> [i \in 1..Len(kept) |->
                      IF kept[i].tag = "Collection"
                      THEN [tag |-> "Collection",
                            c |-> Collection_map_drop_empty(kept[i].c, f)]
                      ELSE [tag |-> "Item", r |-> f[kept[i].r]]]]

\* src/src/hid/parser.rs: f is the closure, as a function on the Fields
RECURSIVE Collection_map(_, _)
Collection_map(c, f) ==
    [collection_type |-> c.collection_type,
     usage |-> c.usage,
     designator_index |-> c.designator_index,
     string_index |-> c.string_index,
     items |-> [i \in 1..Len(c.items) |->
                  IF c.items[i].tag = "Collection"
                  THEN [tag |-> "Collection", c |-> Collection_map(c.items[i].c, f)]
                  ELSE [tag |-> "Item", r |-> f[c.items[i].r]]]]

\* src/src/hid/collection.rs: the closure returns an Option, and the items it
\* returns None for are left out (filter_map)
RECURSIVE Collection_map_opt(_, _)
RECURSIVE filter_map_items(_, _)
Collection_map_opt(c, f) ==
    [collection_type |-> c.collection_type,
     usage |-> c.usage,
     designator_index |-> c.designator_index,
     string_index |-> c.string_index,
     items |-> filter_map_items(c.items, f)]
filter_map_items(items, f) ==
    IF items = <<>> THEN <<>>
    ELSE LET item == Head(items)
             rest == filter_map_items(Tail(items), f)
         IN  IF item.tag = "Collection"
             THEN <<[tag |-> "Collection", c |-> Collection_map_opt(item.c, f)]>> \o rest
             ELSE IF f[item.r].some
             THEN <<[tag |-> "Item", r |-> f[item.r].v]>> \o rest
             ELSE rest

\* the Fields of a collection, in the order of their Input items
RECURSIVE FieldsOf(_)
RECURSIVE FieldsOfItems(_)
FieldsOf(c) == FieldsOfItems(c.items)
FieldsOfItems(items) ==
    IF items = <<>> THEN <<>>
    ELSE (IF Head(items).tag = "Item" THEN <<Head(items).r>> ELSE FieldsOf(Head(items).c))
            \o FieldsOfItems(Tail(items))

FieldSet(c) == {FieldsOf(c)[i] : i \in 1..Len(FieldsOf(c))}

\* ReportParser::parse_input: a panic of the closure on any Field is a panic
\* of the call
parse_input(b, collection, input) ==
    LET parsed == [r \in FieldSet(collection) |-> parser_Report_parse(b, r, input)]
    IN  IF \E r \in FieldSet(collection) : parsed[r].panic THEN [panic |-> TRUE]
        ELSE [panic |-> FALSE,
              tree |-> Collection_map(collection,
                                      [r \in FieldSet(collection) |-> parsed[r].inputs])]

(***************************************************************************)
(* One call of extract_value on a buffer that holds a value of bit_length  *)
(* bits at bit_offset, the other bits of the buffer all 0 or all 1.        *)
(***************************************************************************)
\* the values tried for a field of n bits, as sets of one bits
ValuePatterns(n) == {{}, {0}, {n - 1}, 0..(n - 1)}

\* byte k of the buffer whose one bits are S
ByteOf(S, k) == SumPow({j \in 0..7 : 8 * k + j \in S} , 0)

BufferOf(S, len) == [k \in 1..len |-> ByteOf(S, k - 1)]

\* the buffer of len bytes with the bits V written at off, and fill elsewhere
WriteValue(V, off, n, len, fill) ==
    BufferOf({off + v : v \in V}
                 \cup (IF fill = 1 THEN (0..(8 * len - 1)) \ (off..(off + n - 1)) ELSE {}),
             len)

ExtInit ==
    /\ \E n \in 1..32, off \in 0..MaxBitOffset, fill \in {0, 1}, extra \in {0, 1} :
         \E V \in ValuePatterns(n) :
            xcase = [report |-> WriteValue(V, off, n, ((off + n - 1) \div 8) + 1 + extra, fill),
                     bit_offset |-> off,
                     bit_length |-> n,
                     value |-> FromBits(V)]
    /\ xres = None

ExtIdle ==
    /\ xcase = [report |-> <<>>, bit_offset |-> 0, bit_length |-> 0, value |-> Zero32]
    /\ xres = None

\* Report::extract_value, of report.rs or of parser.rs
Extract ==
    /\ ~xres.some
    /\ \E file \in {"report.rs", "parser.rs"} :
         LET r == extract_value_of(file, build, xcase.report, xcase.bit_offset,
                                   xcase.bit_length)
         IN  xres' = Some([file |-> file, panic |-> r.panic, value |-> r.value])
    /\ UNCHANGED <<build, xcase, tokvars, asmvars, decvars, callvars>>

(***************************************************************************)
(* Assembler: the state tables (GlobalItems::new, LocalItems::new).        *)
(***************************************************************************)
GlobalItems_new ==
    [usage_page |-> None, logical_minimum |-> None, logical_maximum |-> None,
     physical_minimum |-> None, physical_maximum |-> None, unit_exponent |-> None,
     unit |-> None, report_size |-> None, report_id |-> None, report_count |-> None]

LocalItems_new ==
    [usages |-> <<>>, usage_minimum |-> <<None, None>>, usage_maximum |-> <<None, None>>,
     designator_index |-> None, designator_minimum |-> None, designator_maximum |-> None,
     string_index |-> None, string_minimum |-> None, string_maximum |-> None]

\* the state of read_items between two items
AsmState(table, stack, off) ==
    [state_table |-> table, collection_stack |-> stack, bit_offset |-> off,
     status |-> "running", msg |-> ""]

AsmStart == AsmState([global |-> GlobalItems_new, local |-> LocalItems_new], <<>>, Zero32)

Panic(st, msg) == [st EXCEPT !.status = "panic", !.msg = msg]

(***************************************************************************)
(* Assembler: ReportParser::qualify_usage.                                 *)
(***************************************************************************)
\* qualification that takes the global page whenever it is set
qualify_usage_global_page_first(usage_page, usage) ==
    CASE ~usage[1].some /\ ~usage[2].some -> [ok |-> TRUE, v |-> None]
      [] usage_page.some /\ usage[2].some ->
            [ok |-> TRUE, v |-> Some(<<usage_page.v, usage[2].v>>)]
      [] usage[1].some /\ usage[2].some -> [ok |-> TRUE, v |-> Some(<<usage[1].v, usage[2].v>>)]
      [] ~usage[1].some /\ usage[2].some -> [ok |-> FALSE, msg |-> "Missing usage page"]
      [] OTHER -> [ok |-> FALSE, msg |-> "Missing usage"]

qualify_usage(usage_page, usage) ==
    CASE ~usage[1].some /\ ~usage[2].some -> [ok |-> TRUE, v |-> None]
      [] usage[1].some /\ usage[2].some -> [ok |-> TRUE, v |-> Some(<<usage[1].v, usage[2].v>>)]
      [] usage_page.some /\ ~usage[1].some /\ usage[2].some ->
            [ok |-> TRUE, v |-> Some(<<usage_page.v, usage[2].v>>)]
      [] ~usage_page.some /\ ~usage[1].some /\ usage[2].some ->
            [ok |-> FALSE, msg |-> "Missing usage page"]
      [] OTHER -> [ok |-> FALSE, msg |-> "Missing usage"]

(***************************************************************************)
(* Assembler: ReportParser::read_global_item, read_local_item.             *)
(***************************************************************************)
\* a read_global_item whose ReportSize arm writes report_count as well
read_global_item_size_sets_count(st, item) ==
    LET g == st.state_table.global
        set(ng) == [st EXCEPT !.state_table.global = ng]
    IN  CASE item.k = "UsagePage" -> set([g EXCEPT !.usage_page = Some(item.v)])
          [] item.k = "LogicalMinimum" -> set([g EXCEPT !.logical_minimum = Some(item.v)])
          [] item.k = "LogicalMaximum" -> set([g EXCEPT !.logical_maximum = Some(item.v)])
          [] item.k = "PhysicalMinimum" -> set([g EXCEPT !.physical_minimum = Some(item.v)])
          [] item.k = "PhysicalMaximum" -> set([g EXCEPT !.physical_maximum = Some(item.v)])
          [] item.k = "UnitExponent" -> set([g EXCEPT !.unit_exponent = Some(item.v)])
          [] item.k = "Unit" -> set([g EXCEPT !.unit = Some(item.v)])
          [] item.k = "ReportSize" ->
                set([g EXCEPT !.report_size = Some(item.v), !.report_count = Some(item.v)])
          [] item.k = "ReportID" -> set([g EXCEPT !.report_id = Some(item.v)])
          [] item.k = "ReportCount" -> set([g EXCEPT !.report_count = Some(item.v)])
          [] item.k \in {"Push", "Pop"} ->
                Panic(st, "not yet implemented: Item state table stack is not yet implemented")
          [] OTHER -> st

read_global_item(st, item) ==
    LET g == st.state_table.global
        set(ng) == [st EXCEPT !.state_table.global = ng]
    IN  CASE item.k = "UsagePage" -> set([g EXCEPT !.usage_page = Some(item.v)])
          [] item.k = "LogicalMinimum" -> set([g EXCEPT !.logical_minimum = Some(item.v)])
          [] item.k = "LogicalMaximum" -> set([g EXCEPT !.logical_maximum = Some(item.v)])
          [] item.k = "PhysicalMinimum" -> set([g EXCEPT !.physical_minimum = Some(item.v)])
          [] item.k = "PhysicalMaximum" -> set([g EXCEPT !.physical_maximum = Some(item.v)])
          [] item.k = "UnitExponent" -> set([g EXCEPT !.unit_exponent = Some(item.v)])
          [] item.k = "Unit" -> set([g EXCEPT !.unit = Some(item.v)])
          [] item.k = "ReportSize" -> set([g EXCEPT !.report_size = Some(item.v)])
          [] item.k = "ReportID" -> set([g EXCEPT !.report_id = Some(item.v)])
          [] item.k = "ReportCount" -> set([g EXCEPT !.report_count = Some(item.v)])
          [] item.k \in {"Push", "Pop"} ->
                Panic(st, "not yet implemented: Item state table stack is not yet implemented")
          [] OTHER -> st

\* a read_local_item that gives a short usage the global page in force when
\* its item is read
read_local_item_binds_page(st, item) ==
    LET l == st.state_table.local
        page == st.state_table.global.usage_page
        set(nl) == [st EXCEPT !.state_table.local = nl]
    IN  CASE item.k = "Usage" ->
                set([l EXCEPT !.usages = Append(@, <<page, Some(item.v)>>)])
          [] item.k = "UsageMinimum" -> set([l EXCEPT !.usage_minimum = <<page, Some(item.v)>>])
          [] item.k = "UsageMaximum" -> set([l EXCEPT !.usage_maximum = <<page, Some(item.v)>>])
          [] item.k = "ExtendedUsage" ->
                set([l EXCEPT !.usages = Append(@, <<Some(item.p), Some(item.v)>>)])
          [] item.k = "ExtendedUsageMinimum" ->
                set([l EXCEPT !.usage_minimum = <<Some(item.p), Some(item.v)>>])
          [] item.k = "ExtendedUsageMaximum" ->
                set([l EXCEPT !.usage_maximum = <<Some(item.p), Some(item.v)>>])
          [] item.k = "Delimiter" ->
                Panic(st, "not yet implemented: Delimiters are not yet implemented")
          [] OTHER -> st

read_local_item(st, item) ==
    LET l == st.state_table.local
        set(nl) == [st EXCEPT !.state_table.local = nl]
    IN  CASE item.k = "Usage" ->
                set([l EXCEPT !.usages = Append(@, <<None, Some(item.v)>>)])
          [] item.k = "UsageMinimum" -> set([l EXCEPT !.usage_minimum = <<None, Some(item.v)>>])
          [] item.k = "UsageMaximum" -> set([l EXCEPT !.usage_maximum = <<None, Some(item.v)>>])
          [] item.k = "ExtendedUsage" ->
                set([l EXCEPT !.usages = Append(@, <<Some(item.p), Some(item.v)>>)])
          [] item.k = "ExtendedUsageMinimum" ->
                set([l EXCEPT !.usage_minimum = <<Some(item.p), Some(item.v)>>])
          [] item.k = "ExtendedUsageMaximum" ->
                set([l EXCEPT !.usage_maximum = <<Some(item.p), Some(item.v)>>])
          [] item.k = "Delimiter" ->
                Panic(st, "not yet implemented: Delimiters are not yet implemented")
          [] OTHER -> st

(***************************************************************************)
(* Assembler: ReportParser::create_input_item.                             *)
(***************************************************************************)
\* the first qualification of usages that panics or yields nothing, if any
QualifyAll(usage_page, usages) ==
    [i \in 1..Len(usages) |-> qualify_usage(usage_page, usages[i])]

unwrap_or(opt, default) == IF opt.some THEN opt.v ELSE default

create_input_item(b, st, input) ==
    LET g == st.state_table.global
        l == st.state_table.local
        stack == st.collection_stack
        qs == QualifyAll(g.usage_page, l.usages)
        bad == {i \in 1..Len(qs) : ~qs[i].ok}
        usage_maximum == qualify_usage(g.usage_page, l.usage_maximum)
        usage_minimum == qualify_usage(g.usage_page, l.usage_minimum)
    IN  IF bad # {} THEN Panic(st, qs[CHOOSE i \in bad : \A j \in bad : i <= j].msg)
        ELSE IF \E i \in 1..Len(qs) : ~qs[i].v.some
        THEN Panic(st, "Missing usage page for input item")
        ELSE IF ~usage_maximum.ok THEN Panic(st, usage_maximum.msg)
        ELSE IF ~usage_minimum.ok THEN Panic(st, usage_minimum.msg)
        ELSE IF ~g.report_size.some THEN Panic(st, "Missing report size for input item")
        ELSE IF ~g.report_count.some THEN Panic(st, "Missing report size for input item")
        ELSE IF ~g.logical_minimum.some THEN Panic(st, "Missing logical minimum for input item")
        ELSE IF ~g.logical_maximum.some THEN Panic(st, "Missing logical minimum for input item")
        ELSE
        LET report ==
                [report_type |-> [k |-> "Input", flags |-> input.data],
                 usages |-> [i \in 1..Len(qs) |-> qs[i].v.v],
                 usage_minimum |-> usage_minimum.v,
                 usage_maximum |-> usage_maximum.v,
                 bit_offset |-> st.bit_offset,
                 report_id |-> g.report_id,
                 report_size |-> g.report_size.v,
                 report_count |-> g.report_count.v,
                 logical_minimum |-> g.logical_minimum.v,
                 logical_maximum |-> g.logical_maximum.v,
                 physical_minimum |-> unwrap_or(g.physical_minimum, g.logical_minimum.v),
                 physical_maximum |-> unwrap_or(g.physical_minimum, g.logical_maximum.v),
                 unit |-> g.unit,
                 unit_exponent |-> g.unit_exponent]
            product == Checked32(WideMul(g.report_count.v, g.report_size.v))
            sum == Checked32(WideAdd(st.bit_offset, product.value))
        IN  IF Len(stack) = 0
            THEN Panic(st, IF b = "debug" THEN "attempt to subtract with overflow"
                           ELSE "index out of bounds")
            ELSE IF product.overflow /\ b = "debug"
            THEN Panic(st, "attempt to multiply with overflow")
            ELSE IF sum.overflow /\ b = "debug"
            THEN Panic(st, "attempt to add with overflow")
            ELSE [st EXCEPT
                    !.collection_stack[Len(stack)].items =
                        Append(@, [tag |-> "Item", r |-> report]),
                    !.bit_offset = sum.value,
                    !.state_table.local = LocalItems_new]

(***************************************************************************)
(* Assembler: ReportParser::read_items, one iteration of its loop and its  *)
(* last line.                                                              *)
(***************************************************************************)
open_collection(st, c) ==
    LET l == st.state_table.local
    IN  IF Len(l.usages) # 1 THEN Panic(st, "Too many usages for a collection")
        ELSE LET q == qualify_usage(st.state_table.global.usage_page, l.usages[1])
             IN  IF ~q.ok THEN Panic(st, q.msg)
                 ELSE IF ~q.v.some THEN Panic(st, "Bad usage item")
                 ELSE [st EXCEPT
                         !.collection_stack =
                             Append(@, [collection_type |-> c,
                                        usage |-> q.v.v,
                                        designator_index |-> None,
                                        string_index |-> None,
                                        items |-> <<>>]),
                         !.state_table.local = LocalItems_new]

\* an EndCollection that pops the top and does not hand it to its parent
end_collection_drops_child(b, st) ==
    LET stack == st.collection_stack
        n == Len(stack)
    IN  IF n = 1 THEN st
        ELSE IF n = 0
        THEN Panic(st, IF b = "debug" THEN "attempt to subtract with overflow"
                       ELSE "can't pop collection of a stack with items")
        ELSE [st EXCEPT !.collection_stack = SubSeq(stack, 1, n - 1)]

end_collection(b, st) ==
    LET stack == st.collection_stack
        n == Len(stack)
    IN  IF n = 1 THEN st
        ELSE IF n = 0
        THEN Panic(st, IF b = "debug" THEN "attempt to subtract with overflow"
                       ELSE "can't pop collection of a stack with items")
        ELSE [st EXCEPT
                !.collection_stack =
                    [SubSeq(stack, 1, n - 1) EXCEPT
                        ![n - 1].items = Append(@, [tag |-> "Collection", c |-> stack[n]])]]

\* a loop body that makes a Field of an Output item as of an Input item
read_item_output_makes_field(b, st, item) ==
    CASE item.t = "Global" -> read_global_item(st, item.i)
      [] item.t = "Local" -> read_local_item(st, item.i)
      [] item.t = "Main" /\ item.i.k \in {"Input", "Output"} -> create_input_item(b, st, item.i)
      [] item.t = "Main" /\ item.i.k = "Collection" -> open_collection(st, item.i.c)
      [] item.t = "Main" /\ item.i.k = "EndCollection" -> end_collection(b, st)
      [] OTHER -> st

read_item(b, st, item) ==
    CASE item.t = "Global" -> read_global_item(st, item.i)
      [] item.t = "Local" -> read_local_item(st, item.i)
      [] item.t = "Main" /\ item.i.k = "Input" -> create_input_item(b, st, item.i)
      [] item.t = "Main" /\ item.i.k = "Collection" -> open_collection(st, item.i.c)
      [] item.t = "Main" /\ item.i.k = "EndCollection" -> end_collection(b, st)
      [] OTHER -> st

\* collection_stack.pop_front().expect("No collection found!")
read_items_return(st) ==
    IF Len(st.collection_stack) = 0 THEN Panic(st, "No collection found!")
    ELSE [st EXCEPT !.status = "returned", !.collection_stack = Tail(@)]

(***************************************************************************)
(* The assembler as a state machine: read_items consumes one item of the   *)
(* descriptor per step, and returns when the items end.                    *)
(***************************************************************************)
\* a short item as it stands in the descriptor: header byte and payload
Raw(header, hi, lo) == [header |-> header, data |-> [hi |-> hi, lo |-> lo]]

\* the BasicItem the tokenizer makes of it
ItemOf(raw) ==
    LET h == item_header(raw.header)
    IN  BasicItem_new(h.item_type, h.tag, raw.data, h.size)

RawUsagePage == Raw(5, 0, 1)
RawUsage == Raw(9, 0, 48)
RawExtendedUsage == Raw(11, 1, 4)
RawCollection == Raw(161, 0, 1)
RawEndCollection == Raw(192, 0, 0)
RawInput == Raw(129, 0, 2)
RawOutput == Raw(145, 0, 2)
RawFeature == Raw(177, 0, 2)
RawReservedMain == Raw(208, 0, 0)
RawLogicalMinimum == Raw(21, 0, 0)
RawLogicalMaximum == Raw(37, 0, 1)
RawReportSize8 == Raw(117, 0, 8)
RawReportSizeBig == Raw(119, 1, 0)
RawReportCount2 == Raw(149, 0, 2)
RawReportCountBig == Raw(150, 0, 65535)
RawLogicalMinimum5 == Raw(21, 0, 5)
RawReportSize0 == Raw(117, 0, 0)
RawPhysicalMinimum == Raw(53, 0, 2)
RawPhysicalMaximum == Raw(69, 0, 7)
RawUnitExponent == Raw(85, 0, 14)
RawUnit == Raw(101, 0, 17)
RawReportID == Raw(133, 0, 165)
RawPush == Raw(164, 0, 0)
RawPop == Raw(180, 0, 0)
RawReservedGlobal == Raw(197, 0, 3)
RawUsagePage9 == Raw(5, 0, 9)
RawUsageMinimum == Raw(25, 0, 1)
RawUsageMaximum == Raw(41, 0, 2)
RawExtendedUsage9 == Raw(11, 9, 5)

\* the items that open a collection and set the globals an Input item needs
Preamble ==
    <<RawExtendedUsage, RawCollection, RawLogicalMinimum, RawLogicalMaximum,
      RawReportSize8, RawReportCount2>>

\* the items that follow the Preamble in the descriptors that start with it
TailPool ==
    {RawUsage, RawExtendedUsage, RawExtendedUsage9, RawUsageMinimum, RawUsageMaximum,
     RawUsagePage, RawUsagePage9, RawInput, RawOutput, RawFeature, RawReservedMain}

\* the descriptors read are made of the items of one of these pools
Pools ==
    { {RawUsage, RawUsagePage, RawExtendedUsage, RawCollection, RawEndCollection,
       RawOutput, RawFeature, RawReservedMain},
      {RawExtendedUsage, RawCollection, RawEndCollection, RawInput,
       RawLogicalMinimum, RawLogicalMaximum,
       RawReportSize8, RawReportSizeBig, RawReportCount2, RawReportCountBig},
      {RawExtendedUsage, RawCollection, RawInput,
       RawLogicalMinimum, RawLogicalMinimum5, RawLogicalMaximum,
       RawReportSize0, RawReportSize8, RawReportCount2,
       RawPhysicalMinimum, RawPhysicalMaximum},
      {RawExtendedUsage, RawCollection, RawOutput,
       RawUnitExponent, RawUnit, RawReportID, RawPush, RawPop, RawReservedGlobal},
      TailPool }

\* what has been read: the number of items, the last item, the numbers of
\* Collection and EndCollection items, whether an EndCollection has matched
\* the first Collection, report_size and report_count at each Input item
\* that made a Field, the global usage_page in force when the first Usage item
\* was read since an Input or Collection item last took the usages, and what
\* that was when it took them
SeenStart ==
    [items |-> 0, last |-> None, collections |-> 0, end_collections |-> 0,
     root_closed |-> FALSE, inputs |-> <<>>, page_then |-> None, taken |-> None]

IsMain(item, kind) == item.t = "Main" /\ item.i.k = kind

Saw(item, made_field, g, took) ==
    LET nc == seen.collections + (IF IsMain(item, "Collection") THEN 1 ELSE 0)
        ne == seen.end_collections + (IF IsMain(item, "EndCollection") THEN 1 ELSE 0)
    IN  [items |-> seen.items + 1,
         last |-> Some(item),
         collections |-> nc,
         end_collections |-> ne,
         root_closed |-> seen.root_closed
                            \/ (IsMain(item, "EndCollection") /\ nc >= 1 /\ ne = nc),
         inputs |-> IF made_field
                    THEN Append(seen.inputs, [report_size |-> g.report_size.v,
                                              report_count |-> g.report_count.v])
                    ELSE seen.inputs,
         page_then |-> IF took THEN None
                       ELSE IF item.t = "Local" /\ item.i.k = "Usage" /\ ~seen.page_then.some
                       THEN Some(g.usage_page)
                       ELSE seen.page_then,
         taken |-> IF took THEN seen.page_then ELSE seen.taken]

AsmNow ==
    [state_table |-> state_table, collection_stack |-> collection_stack,
     bit_offset |-> bit_offset, status |-> status, msg |-> panic_msg]

AsmInit ==
    /\ pool \in Pools
    /\ state_table = AsmStart.state_table
    /\ collection_stack = AsmStart.collection_stack
    /\ bit_offset = AsmStart.bit_offset
    /\ status = "running"
    /\ panic_msg = ""
    /\ result = None
    /\ seen = SeenStart

AsmIdle ==
    /\ pool = {}
    /\ state_table = AsmStart.state_table
    /\ collection_stack = AsmStart.collection_stack
    /\ bit_offset = AsmStart.bit_offset
    /\ status = "running"
    /\ panic_msg = ""
    /\ result = None
    /\ seen = SeenStart

\* the items the descriptor may hold next: those of its pool, behind the
\* Preamble when the pool is TailPool
Offered ==
    IF pool = TailPool /\ seen.items < Len(Preamble) THEN {Preamble[seen.items + 1]} ELSE pool

\* the body of the for loop of read_items, on the next item
ReadItem ==
    /\ status = "running"
    /\ seen.items < MaxItems
    /\ \E raw \in Offered :
         LET item == ItemOf(raw)
             st == read_item(build, AsmNow, item)
         IN  /\ state_table' = st.state_table
             /\ collection_stack' = st.collection_stack
             /\ bit_offset' = st.bit_offset
             /\ status' = st.status
             /\ panic_msg' = st.msg
             /\ seen' = Saw(item, IsMain(item, "Input") /\ st.status = "running",
                            state_table.global,
                            (IsMain(item, "Input") \/ IsMain(item, "Collection"))
                                /\ st.status = "running")
    /\ UNCHANGED <<build, pool, result, tokvars, extvars, decvars, callvars>>

\* the items have ended: read_items returns the front of the stack
EndOfItems ==
    /\ status = "running"
    /\ LET st == read_items_return(AsmNow)
       IN  /\ status' = st.status
           /\ panic_msg' = st.msg
           /\ result' = IF st.status = "returned" THEN Some(Head(collection_stack)) ELSE None
           /\ collection_stack' = st.collection_stack
    /\ UNCHANGED <<build, pool, state_table, bit_offset, seen, tokvars, extvars, decvars, callvars>>

AsmNext == ReadItem \/ EndOfItems

(***************************************************************************)
(* The decoder as a state machine: a ReportParser made of a descriptor     *)
(* (ReportParser::new), then parse_input on a report buffer, and            *)
(* Report::parse on one Field of the tree.                                  *)
(***************************************************************************)
\* the for loop of read_items on all the items of a descriptor
\* the turns of the loop on items lo..hi, the first half of them before the second
RECURSIVE read_range(_, _, _, _, _)
read_range(b, st, items, lo, hi) ==
    IF st.status # "running" \/ lo > hi THEN st
    ELSE IF lo = hi THEN read_item(b, st, items[lo])
    ELSE read_range(b, read_range(b, st, items, lo, (lo + hi) \div 2),
                    items, ((lo + hi) \div 2) + 1, hi)

read_loop(b, st, items) == read_range(b, st, items, 1, Len(items))

\* read_items: the loop, and then the front of the stack is returned
read_items(b, raws) ==
    LET st == read_loop(b, AsmStart, [i \in 1..Len(raws) |-> ItemOf(raws[i])])
    IN  IF st.status = "running" /\ read_items_return(st).status = "returned"
        THEN [panic |-> FALSE, collection |-> Head(st.collection_stack)]
        ELSE [panic |-> TRUE]

\* the Input items the descriptors decoded are made of, each with the items
\* that set what it reads
\* three 10-bit controls with two usages, Null State set
Axes ==
    <<Raw(9, 0, 48), Raw(9, 0, 49), Raw(21, 0, 0), Raw(38, 0, 511),
      Raw(117, 0, 10), Raw(149, 0, 3), Raw(129, 0, 66)>>

\* three 1-bit controls, usages by Usage Minimum 1 and Usage Maximum 2
Buttons ==
    <<Raw(25, 0, 1), Raw(41, 0, 2), Raw(21, 0, 0), Raw(37, 0, 1),
      Raw(117, 0, 1), Raw(149, 0, 3), Raw(129, 0, 2)>>

\* a Constant field
Padding ==
    <<Raw(21, 0, 0), Raw(37, 0, 1), Raw(117, 0, 1), Raw(149, 0, 5), Raw(129, 0, 1)>>

\* two signed bytes under Report ID 165, with one usage and a usage range
Wheels ==
    <<Raw(133, 0, 165), Raw(9, 0, 56), Raw(25, 0, 64), Raw(41, 0, 65),
      Raw(23, 65535, 65409), Raw(37, 0, 127),
      Raw(117, 0, 8), Raw(149, 0, 2), Raw(129, 0, 6)>>

\* a byte without any usage
Unnamed ==
    <<Raw(21, 0, 0), Raw(38, 0, 255), Raw(117, 0, 8), Raw(149, 0, 1), Raw(129, 0, 2)>>

\* a field without controls
Empty ==
    <<Raw(9, 0, 51), Raw(21, 0, 0), Raw(37, 0, 1),
      Raw(117, 0, 1), Raw(149, 0, 0), Raw(129, 0, 2)>>

\* a collection of its own
Nested == <<Raw(9, 0, 1), Raw(161, 0, 0)>> \o Empty \o Padding \o <<Raw(192, 0, 0)>>

Members == {Axes, Buttons, Padding, Wheels, Unnamed, Nested}

RECURSIVE Flatten(_)
Flatten(ss) == IF ss = <<>> THEN <<>> ELSE Head(ss) \o Flatten(Tail(ss))

\* an application collection with up to MaxMembers members
Descriptors ==
    {<<Raw(5, 0, 1), Raw(9, 0, 4), Raw(161, 0, 1)>> \o Flatten(ms) \o <<Raw(192, 0, 0)>> :
        ms \in SeqsUpTo(Members, MaxMembers)}

\* the report of the test parses_an_input_report
ZeroReport == [i \in 1..64 |-> 0]

InputReports == {<<>>, <<255, 255>>, <<165, 90, 60, 195, 129>>}

\* the joystick descriptor of the tests
JOYSTICK ==
    <<5, 1, 9, 4, 161, 1, 9, 1, 161, 0, 5, 1, 9, 48, 9, 49, 21,
      0, 38, 255, 3, 117, 10, 149, 2, 129, 2, 9, 53, 21, 0, 38, 255,
      0, 117, 8, 149, 1, 129, 2, 9, 50, 9, 54, 21, 0, 38, 255, 0,
      117, 8, 149, 2, 129, 2, 5, 9, 25, 1, 41, 14, 21, 0, 37, 1,
      117, 1, 149, 14, 129, 2, 5, 1, 9, 57, 21, 1, 37, 8, 53, 0,
      70, 59, 1, 102, 20, 0, 117, 4, 149, 1, 129, 66, 117, 2, 149, 1,
      129, 1, 192, 192>>

\* one turn of a for loop over the iterator: a call of next
for_next(bs, s) ==
    LET r == BasicItems_next(bs, s.offset)
    IN  IF s.done THEN s
        ELSE IF r.ret = "some" THEN [s EXCEPT !.offset = r.offset, !.items = Append(@, r.item)]
        ELSE [s EXCEPT !.done = TRUE, !.panic = (r.ret = "panic")]

\* n turns of the loop, the first half of them before the second
RECURSIVE for_turns(_, _, _)
for_turns(bs, s, n) ==
    IF s.done \/ n = 0 THEN s
    ELSE IF n = 1 THEN for_next(bs, s)
    ELSE for_turns(bs, for_turns(bs, s, n \div 2), n - (n \div 2))

\* the for loop over the iterator: the items next yields from off on, until it
\* returns None or panics (every item takes a byte at least)
collect(bs, off) ==
    for_turns(bs, [offset |-> off, items |-> <<>>, done |-> FALSE, panic |-> FALSE],
              Len(bs) + 1)

\* ReportParser::new(BasicItems::new(bs)): read_items on the items of bs
ReportParser_new(b, bs) ==
    LET items == collect(bs, 0).items
        st == read_loop(b, AsmStart, items)
    IN  IF st.status = "running" /\ ~collect(bs, 0).panic
            /\ read_items_return(st).status = "returned"
        THEN [panic |-> FALSE, collection |-> Head(st.collection_stack)]
        ELSE [panic |-> TRUE]

\* the parser made of the joystick descriptor, in either build
JoystickParser == [b \in Builds |-> ReportParser_new(b, JOYSTICK)]

DecInit ==
    /\ \/ \E d \in Descriptors :
            /\ ~read_items(build, d).panic
            /\ parser = [collection |-> read_items(build, d).collection]
            /\ input_report \in InputReports
       \/ /\ ~JoystickParser[build].panic
          /\ parser = [collection |-> JoystickParser[build].collection]
          /\ input_report \in InputReports \cup {ZeroReport}
    /\ decoded = None
    /\ leaves = None

DecIdle ==
    /\ parser = None
    /\ input_report = <<>>
    /\ decoded = None
    /\ leaves = None

\* ReportParser::parse_input
ParseInput ==
    /\ decoded = None
    /\ decoded' = Some(parse_input(build, parser.collection, input_report))
    /\ UNCHANGED <<build, parser, input_report, leaves, tokvars, extvars, asmvars, callvars>>

\* Report::parse on the k-th Field of the tree; file says whose Report::parse
ParseReport ==
    /\ leaves = None
    /\ \E k \in 1..Len(FieldsOf(parser.collection)), file \in {"report.rs", "parser.rs"} :
         LET r == FieldsOf(parser.collection)[k]
         IN  leaves' = Some([field |-> r, file |-> file,
                             out |-> IF file = "report.rs"
                                     THEN Report_parse(build, r, input_report)
                                     ELSE parser_Report_parse(build, r, input_report)])
    /\ UNCHANGED <<build, parser, input_report, decoded, tokvars, extvars, asmvars, callvars>>

DecNext == ParseInput \/ ParseReport

(***************************************************************************)
(* One call of Report::signed, on the two's-complement encoding of a       *)
(* number, or of ReportParser::qualify_usage.                              *)
(***************************************************************************)
\* the least and the greatest number of length bits (2^31 is no number of
\* the model checker)
MinOf(length) == IF length = 32 THEN (-(2 ^ 30)) * 2 ELSE -(2 ^ (length - 1))
MaxOf(length) == -(MinOf(length) + 1)

\* the length-bit two's-complement encoding of v, upper bits zero
TwoComplement(v, length) ==
    IF v >= 0 THEN U32(v)
    ELSE Or32(U32(v - MinOf(length)), Shl32(U32(1), length - 1))

SignedValues(length) ==
    {v \in {MinOf(length), MinOf(length) + 1, -27, -2, -1, 0, 1, 27,
            MaxOf(length) - 1, MaxOf(length)} :
        MinOf(length) <= v /\ v <= MaxOf(length)}

UsagePages == {None, Some(1), Some(9), Some(65280)}
UsageIds == {None, Some(0), Some(48), Some(65535)}

CallInit ==
    /\ \/ \E length \in 1..32, file \in {"report.rs", "parser.rs"} :
            \E v \in SignedValues(length) :
               call = [fn |-> "signed", file |-> file, number |-> v,
                       value |-> TwoComplement(v, length), length |-> length]
       \/ \E gp \in UsagePages, lp \in UsagePages, lu \in UsageIds :
               call = [fn |-> "qualify_usage", usage_page |-> gp, usage |-> <<lp, lu>>]
       \/ \E data \in 0..255 : call = [fn |-> "Collection_new", data |-> data]
    /\ ret = None

CallIdle ==
    /\ call = [fn |-> "none"]
    /\ ret = None

\* Report::signed
Signed ==
    /\ call.fn = "signed"
    /\ ret = None
    /\ ret' = Some(signed_of(call.file, build, call.value, call.length))
    /\ UNCHANGED <<build, call, tokvars, extvars, asmvars, decvars>>

\* ReportParser::qualify_usage
QualifyUsage ==
    /\ call.fn = "qualify_usage"
    /\ ret = None
    /\ ret' = Some(qualify_usage(call.usage_page, call.usage))
    /\ UNCHANGED <<build, call, tokvars, extvars, asmvars, decvars>>

\* basic::Collection::new
CollectionNew ==
    /\ call.fn = "Collection_new"
    /\ ret = None
    /\ ret' = Some(Collection_new(call.data))
    /\ UNCHANGED <<build, call, tokvars, extvars, asmvars, decvars>>

CallNext == Signed \/ QualifyUsage \/ CollectionNew

(***************************************************************************)
(* Specifications.                                                         *)
(***************************************************************************)
InitTok == build \in Builds /\ TokInit /\ ExtIdle /\ AsmIdle /\ DecIdle /\ CallIdle
SpecTok == InitTok /\ [][Next_item]_vars

InitExt == build \in Builds /\ TokIdle /\ ExtInit /\ AsmIdle /\ DecIdle /\ CallIdle
SpecExt == InitExt /\ [][Extract]_vars

InitAsm == build \in Builds /\ TokIdle /\ ExtIdle /\ AsmInit /\ DecIdle /\ CallIdle
SpecAsm == InitAsm /\ [][AsmNext]_vars

InitDec == build \in Builds /\ TokIdle /\ ExtIdle /\ AsmIdle /\ DecInit /\ CallIdle
SpecDec == InitDec /\ [][DecNext]_vars

InitCall == build \in Builds /\ TokIdle /\ ExtIdle /\ AsmIdle /\ DecIdle /\ CallInit
SpecCall == InitCall /\ [][CallNext]_vars

(***************************************************************************)
(* Claims about the tokenizer.                                             *)
(***************************************************************************)
\* the payload size a header byte declares (HID 1.11, 6.2.2.2: bSize 0, 1, 2, 3
\* stands for 0, 1, 2, 4 bytes)
DeclaredSize(h) == IF h % 4 = 3 THEN 4 ELSE h % 4

\* every item header of bs from position p on is followed by its payload
RECURSIVE WellFormedFrom(_, _)
WellFormedFrom(bs, p) ==
    \/ p = Len(bs)
    \/ /\ p < Len(bs)
       /\ p + DeclaredSize(bs[p + 1]) < Len(bs)
       /\ WellFormedFrom(bs, p + 1 + DeclaredSize(bs[p + 1]))

\* the header at p declares more payload bytes than remain
Truncated(bs, p) == p < Len(bs) /\ Len(bs) - p - 1 < DeclaredSize(bs[p + 1])

RECURSIVE EncodedLengths(_)
EncodedLengths(items) ==
    IF items = <<>> THEN 0 ELSE 1 + Head(items).size + EncodedLengths(Tail(items))

\* C3: on a descriptor in which every header is followed by its payload the
\* tokenizer never panics, the items it has yielded are contiguous from byte 0
\* (each starts where the one before ends, none starts at or past the end), their
\* encoded lengths 1 + size sum to the offset, and None is returned only at
\* offset = |d|.
C3_TokenizerTotality ==
    WellFormedFrom(bytes, 0) =>
        /\ tok # "panic"
        /\ offset <= Len(bytes)
        /\ EncodedLengths(yielded) = offset
        /\ \A i \in 1..Len(yielded) :
              /\ yielded[i].at = EncodedLengths(SubSeq(yielded, 1, i - 1))
              /\ yielded[i].at < Len(bytes)
              /\ yielded[i].size = DeclaredSize(bytes[yielded[i].at + 1])
        /\ (tok = "none" => offset = Len(bytes) /\ EncodedLengths(yielded) = Len(bytes))

C3_Witness ==
    /\ WellFormedFrom(bytes, 0)
    /\ tok = "none"
    /\ Len(bytes) = MaxDescLen
    /\ Len(yielded) = 2
    /\ yielded[1].size = 2

\* C4: a call of next at a header whose payload is cut short by the end of the
\* descriptor ends with the error TruncatedItem (it neither yields an item nor
\* panics).
C4_TruncatedItem ==
    LET at == IF tok = "some" THEN yielded[Len(yielded)].at ELSE offset
    IN  (tok # "start" /\ Truncated(bytes, at)) => tok = "TruncatedItem"

\* where the call of next that has just returned began
CalledAt == IF tok = "some" THEN yielded[Len(yielded)].at ELSE offset

\* C23: when the tokenizer meets the header byte 0xFE at an item boundary it
\* yields the error UnsupportedLongItem; it does not tokenize the byte as a
\* short item.
C23_LongItem ==
    (tok # "start" /\ CalledAt < Len(bytes) /\ bytes[CalledAt + 1] = 254)
      => tok = "UnsupportedLongItem"

\* the k-th payload byte of the item of bs at position at, 0 past its size
PayloadByte(bs, at, k) == IF k <= DeclaredSize(bs[at + 1]) THEN bs[at + 1 + k] ELSE 0

\* the little-endian unsigned value of the payload, in 16-bit halves
Payload(bs, at) ==
    [hi |-> PayloadByte(bs, at, 3) + 256 * PayloadByte(bs, at, 4),
     lo |-> PayloadByte(bs, at, 1) + 256 * PayloadByte(bs, at, 2)]

ClassOf(h) == <<"Main", "Global", "Local", "Reserved">>[((h \div 4) % 4) + 1]

\* C24: for every header byte h the tokenizer takes the payload size
\* [0,1,2,4][h & 3], the class (h >> 2) & 3 and the tag h >> 4, builds the
\* payload as the little-endian unsigned value of the next size bytes, and
\* advances its offset by size + 1.
C24_HeaderDecoding ==
    /\ \A i \in 1..Len(yielded) :
          LET at == yielded[i].at
              h == bytes[at + 1]
          IN  /\ yielded[i].size = <<0, 1, 2, 4>>[(h % 4) + 1]
              /\ yielded[i].item.t = ClassOf(h)
              /\ yielded[i].item =
                    BasicItem_new((h \div 4) % 4, h \div 16, Payload(bytes, at), yielded[i].size)
              /\ (IF i < Len(yielded) THEN yielded[i + 1].at ELSE offset)
                    = at + yielded[i].size + 1
    /\ (yielded = <<>> => offset = 0)

C24_Witness ==
    /\ tok = "none"
    /\ offset = MaxDescLen
    /\ Len(yielded) = 1
    /\ yielded[1].item.t = "Global" /\ yielded[1].size = 4
    /\ yielded[1].item.i.v = 129 + 256 * 38 + Half * (23 + 256 * 11)

\* C26: for every 4-byte Local item with tag 0, 1 or 2 and payload d the
\* tokenizer yields ExtendedUsage / ExtendedUsageMinimum / ExtendedUsageMaximum
\* with page d >> 16 and usage id d & 0xFFFF.
C26_ExtendedUsageDecoding ==
    \A i \in 1..Len(yielded) :
        LET at == yielded[i].at
            h == bytes[at + 1]
            d == Payload(bytes, at)
        IN  (h % 16 = 11 /\ h \div 16 \in {0, 1, 2}) =>
                /\ yielded[i].item.t = "Local"
                /\ yielded[i].item.i.k =
                      <<"ExtendedUsage", "ExtendedUsageMinimum", "ExtendedUsageMaximum">>[(h \div 16) + 1]
                /\ yielded[i].item.i.p = d.hi
                /\ yielded[i].item.i.v = d.lo

\* the number the payload d of size bytes stands for in two's complement
SignedPayload(d, size) ==
    CASE size = 1 -> IF d.lo >= 128 THEN d.lo - 256 ELSE d.lo
      [] size = 2 -> IF d.lo >= 32768 THEN d.lo - Half ELSE d.lo
      [] OTHER -> IF d.hi >= 32768 THEN (d.hi - Half) * Half + d.lo ELSE d.hi * Half + d.lo

\* C27: the value stored for Logical Minimum, Logical Maximum, Physical
\* Minimum and Physical Maximum is the item payload sign-extended from the
\* item's own size (1, 2 or 4 bytes).
C27_SignedGlobals ==
    \A i \in 1..Len(yielded) :
        LET at == yielded[i].at
            h == bytes[at + 1]
        IN  (ClassOf(h) = "Global" /\ h \div 16 \in {1, 2, 3, 4} /\ h % 4 # 0) =>
                yielded[i].item.i.v = SignedPayload(Payload(bytes, at), yielded[i].size)

(***************************************************************************)
(* Claims about bit extraction.                                            *)
(***************************************************************************)
\* C10: extract_value returns the value written at [offset, offset + size),
\* whatever the other bits are, and does not overflow.
C10_ExtractRoundTrip ==
    (xres.some /\ xres.v.file = "report.rs") =>
        (~xres.v.panic /\ xres.v.value = xcase.value)

\* C36: for every report buffer, offset and bit_length in 1..31,
\* Report::extract_value of parser.rs returns a value < 2^bit_length that
\* depends only on the bits [offset, offset + bit_length) of the buffer: the
\* buffers that agree with this one on those bits and are all zeros or all ones
\* elsewhere give the same result.
C36_FieldIsolation ==
    (xres.some /\ xres.v.file = "parser.rs" /\ xcase.bit_length \in 1..31) =>
        /\ ~xres.v.panic
        /\ BitsOf(xres.v.value) \subseteq 0..(xcase.bit_length - 1)
        /\ \A fill \in {0, 1} :
              LET other == WriteValue(BitsOf(xcase.value), xcase.bit_offset, xcase.bit_length,
                                      Len(xcase.report), fill)
                  r == parser_extract_value(build, other, xcase.bit_offset, xcase.bit_length)
              IN  r.panic = xres.v.panic /\ r.value = xres.v.value

(***************************************************************************)
(* Claims about the assembler.                                             *)
(***************************************************************************)
\* assembly has ended by returning the error e
Failed(e) == status = "error" /\ panic_msg = e

LastIs(kinds) == seen.last.some /\ seen.last.v.t = "Main" /\ seen.last.v.i.k \in kinds

\* the exact sum of report_size * report_count over the first n Input items
RECURSIVE ExactOffset(_, _)
ExactOffset(inputs, n) ==
    IF n = 0 THEN Zero32
    ELSE WideAdd(ExactOffset(inputs, n - 1),
                 WideMul(inputs[n].report_count, inputs[n].report_size))

\* C1: after every Main item that has been processed the local table is empty.
C1_LocalReset ==
    (status = "running"
        /\ LastIs({"Input", "Output", "Feature", "Collection", "EndCollection", "Reserved"}))
      => state_table.local = LocalItems_new

\* C2: in the tree a descriptor assembles to, the k-th Field's bit_offset is the
\* sum of report_size * report_count over the Input items before it, and
\* bit_offset never decreases from one Field to the next.
C2_OffsetArithmetic ==
    status = "returned" =>
        LET F == FieldsOf(result.v)
        IN  /\ \A k \in 1..Len(F) : F[k].bit_offset = ExactOffset(seen.inputs, k - 1)
            /\ \A k \in 1..(Len(F) - 1) : ~WideLess(F[k + 1].bit_offset, F[k].bit_offset)

\* C5: a Collection or Input item that follows the EndCollection matching the
\* first Collection makes assembly fail with UnbalancedCollections (stated for
\* the items the assembler does not reject by a panic of its own).
C5_TrailingItems ==
    (seen.root_closed /\ LastIs({"Collection", "Input"}) /\ status # "panic")
      => Failed("UnbalancedCollections")

\* C6: when the items end and no Collection item was among them, assembly
\* returns the error UnbalancedCollections.
C6_NoRootCollection ==
    (seen.collections = 0
        /\ (status = "returned" \/ (status = "panic" /\ panic_msg = "No collection found!")))
      => Failed("UnbalancedCollections")

\* C7: an EndCollection item that arrives when as many EndCollection as
\* Collection items have been seen makes assembly fail with
\* UnbalancedCollections (stated for the items the assembler does not reject by
\* a panic of its own).
C7_EndCollectionUnderflow ==
    (LastIs({"EndCollection"}) /\ seen.end_collections - 1 = seen.collections
        /\ status # "panic")
      => Failed("UnbalancedCollections")


\* the first of the globals an Input item requires that g leaves unset
MissingGlobal(g) ==
    CASE ~g.report_size.some -> "MissingGlobal(report_size)"
      [] ~g.report_count.some -> "MissingGlobal(report_count)"
      [] ~g.logical_minimum.some -> "MissingGlobal(logical_minimum)"
      [] ~g.logical_maximum.some -> "MissingGlobal(logical_maximum)"
      [] OTHER -> "none"

\* C19: an Input item processed while report_size, report_count,
\* logical_minimum or logical_maximum is unset makes assembly return the error
\* MissingGlobal naming that global; no Field is appended and bit_offset is not
\* advanced (a Field of the item would be the last of seen.inputs).
C19_MissingGlobal ==
    (LastIs({"Input"}) /\ MissingGlobal(state_table.global) # "none") =>
        /\ Failed(MissingGlobal(state_table.global))
        /\ Len(FieldsOfItems(<<[tag |-> "Collection",
                                c |-> [items |-> [i \in 1..Len(collection_stack) |->
                                         [tag |-> "Collection", c |-> collection_stack[i]]]]]>>))
             = Len(seen.inputs)
        /\ bit_offset = Checked32(ExactOffset(seen.inputs, Len(seen.inputs))).value

\* the step reads an item of the given kind of Main item
Reads(kind) ==
    status = "running" /\ seen'.items = seen.items + 1 /\ IsMain(seen'.last.v, kind)

\* C21: a Collection item processed when the local table holds exactly one
\* usage pushes a new collection whose usage is that usage qualified by the
\* global page; when it holds none or more than one, assembly fails with
\* MalformedUsage and the collection stack is unchanged.
C21_CollectionUsage ==
    [][Reads("Collection") =>
          LET us == state_table.local.usages
              q == qualify_usage(state_table.global.usage_page, us[1])
          IN  IF Len(us) = 1
              THEN (q.ok /\ q.v.some) =>
                      /\ status' = "running"
                      /\ Len(collection_stack') = Len(collection_stack) + 1
                      /\ SubSeq(collection_stack', 1, Len(collection_stack)) = collection_stack
                      /\ collection_stack'[Len(collection_stack')].usage = q.v.v
              ELSE /\ status' = "error"
                   /\ panic_msg' = "MalformedUsage"
                   /\ collection_stack' = collection_stack]_vars

\* the Field the last Input item has made: the last item of the top of the stack
LastField ==
    LET top == collection_stack[Len(collection_stack)]
    IN  top.items[Len(top.items)].r

MadeField == LastIs({"Input"}) /\ status = "running"

\* C22: every Field has physical_minimum equal to the global physical_minimum
\* when it is set and to logical_minimum otherwise, and physical_maximum equal
\* to the global physical_maximum when it is set and to logical_maximum
\* otherwise, as of the moment the Input item is processed.
C22_PhysicalBoundsDefault ==
    MadeField =>
        LET g == state_table.global
        IN  /\ LastField.physical_minimum =
                 (IF g.physical_minimum.some THEN g.physical_minimum.v ELSE g.logical_minimum.v)
            /\ LastField.physical_maximum =
                 (IF g.physical_maximum.some THEN g.physical_maximum.v ELSE g.logical_maximum.v)

\* report_size >= 1 and logical_minimum <= logical_maximum
ValidBounds(report_size, logical_minimum, logical_maximum) ==
    report_size # Zero32 /\ logical_minimum <= logical_maximum

\* C28: every Field in a tree returned by the assembler has report_size >= 1
\* and logical_minimum <= logical_maximum; an Input item whose current globals
\* violate either condition makes assembly fail instead of producing the Field.
C28_FieldValidity ==
    /\ status = "returned" =>
          \A k \in 1..Len(FieldsOf(result.v)) :
              LET r == FieldsOf(result.v)[k]
              IN  ValidBounds(r.report_size, r.logical_minimum, r.logical_maximum)
    /\ LET g == state_table.global
       IN  (LastIs({"Input"}) /\ MissingGlobal(g) = "none"
               /\ ~ValidBounds(g.report_size.v, g.logical_minimum.v, g.logical_maximum.v))
             => status \notin {"running", "returned"}

\* a collection without its children
Opened(c) == [collection_type |-> c.collection_type, usage |-> c.usage]

\* C30: when the collection stack has depth n >= 2, processing EndCollection
\* leaves depth n - 1 and makes the popped collection, with all its children
\* unchanged, the last child of the new top; when the depth is exactly 1 the
\* stack and the root's children are unchanged; hence once a Collection has
\* been pushed the stack is never empty while items are read and the tree
\* returned at the end is the first Collection opened in the descriptor.
C30_EndCollectionTransition ==
    [][LET stack == collection_stack
           n == Len(stack)
       IN  /\ (Reads("EndCollection") /\ n >= 2) =>
                 /\ status' = "running"
                 /\ Len(collection_stack') = n - 1
                 /\ SubSeq(collection_stack', 1, n - 2) = SubSeq(stack, 1, n - 2)
                 /\ Opened(collection_stack'[n - 1]) = Opened(stack[n - 1])
                 /\ collection_stack'[n - 1].items =
                       Append(stack[n - 1].items, [tag |-> "Collection", c |-> stack[n]])
           /\ (Reads("EndCollection") /\ n = 1) =>
                 status' = "running" /\ collection_stack' = stack
           /\ (status = "running" /\ n >= 1 /\ status' # "returned") =>
                 /\ Len(collection_stack') >= 1
                 /\ Opened(collection_stack'[1]) = Opened(stack[1])
           /\ (Reads("Collection") /\ seen.collections = 0 /\ status' = "running") =>
                 Len(collection_stack') = 1
           /\ (status = "running" /\ status' = "returned") =>
                 result' = Some(stack[1])]_vars

C30_Witness ==
    /\ LastIs({"EndCollection"})
    /\ status = "running"
    /\ seen.end_collections = 3
    /\ Len(collection_stack) = 1
    /\ LET items == collection_stack[1].items
       IN  /\ Len(items) = 1
           /\ items[1].tag = "Collection"
           /\ Len(items[1].c.items) = 1
           /\ items[1].c.items[1].tag = "Collection"

\* the Fields made so far, in the order of their Input items: those of the
\* tree returned, then those of the collections on the stack
TreeFields ==
    (IF result.some THEN FieldsOf(result.v) ELSE <<>>)
        \o FieldsOfItems([i \in 1..Len(collection_stack) |->
                            [tag |-> "Collection", c |-> collection_stack[i]]])

\* the Field r holds the values of the tables g and l, the offset at and the
\* flags of the Input item
Holds(r, g, l, at, flags) ==
    /\ r.report_type = [k |-> "Input", flags |-> flags]
    /\ Len(r.usages) = Len(l.usages)
    /\ \A i \in 1..Len(l.usages) :
          r.usages[i] = qualify_usage(g.usage_page, l.usages[i]).v.v
    /\ r.usage_minimum = qualify_usage(g.usage_page, l.usage_minimum).v
    /\ r.usage_maximum = qualify_usage(g.usage_page, l.usage_maximum).v
    /\ r.bit_offset = at
    /\ r.report_id = g.report_id
    /\ r.report_size = g.report_size.v
    /\ r.report_count = g.report_count.v
    /\ r.logical_minimum = g.logical_minimum.v
    /\ r.logical_maximum = g.logical_maximum.v
    /\ r.physical_minimum = unwrap_or(g.physical_minimum, g.logical_minimum.v)
    /\ r.physical_maximum = unwrap_or(g.physical_maximum, g.logical_maximum.v)
    /\ r.unit = g.unit
    /\ r.unit_exponent = g.unit_exponent

\* C31: no step changes a Field made before it, and the Field an Input item
\* makes holds the values the global and local tables and bit_offset had when
\* the item was processed.
C31_FieldFreeze ==
    [][/\ Len(TreeFields') >= Len(TreeFields)
       /\ SubSeq(TreeFields', 1, Len(TreeFields)) = TreeFields
       /\ (Reads("Input") /\ status' = "running") =>
             /\ Len(TreeFields') = Len(TreeFields) + 1
             /\ Holds(TreeFields'[Len(TreeFields')], state_table.global, state_table.local,
                      bit_offset, seen'.last.v.i.data)]_vars

\* the item read by the step is a Local item of this kind
ReadsLocal(kind) ==
    /\ status = "running"
    /\ seen'.items = seen.items + 1
    /\ seen'.last.v.t = "Local"
    /\ seen'.last.v.i.k = kind

\* the usage u of the local table with the page it carries, or else the page page
Paged(page, u) == <<IF u[1].some THEN u[1].v ELSE page.v, u[2].v>>

PagedOpt(page, u) == IF u = <<None, None>> THEN None ELSE Some(Paged(page, u))

\* C35: a Usage, UsageMinimum or UsageMaximum item is collected without a
\* page, whatever the global usage_page when it is read, and a UsagePage item
\* changes nothing of what is collected; the Input or Collection item that
\* takes the usages gives each short one the global usage_page in force at
\* that item, and a Field's usages are those of the Usage items in their order.
C35_QualificationTime ==
    [][LET g == state_table.global
           l == state_table.local
           item == seen'.last.v.i
       IN  /\ ReadsLocal("Usage") =>
                state_table'.local = [l EXCEPT !.usages = Append(@, <<None, Some(item.v)>>)]
           /\ ReadsLocal("ExtendedUsage") =>
                state_table'.local =
                    [l EXCEPT !.usages = Append(@, <<Some(item.p), Some(item.v)>>)]
           /\ ReadsLocal("UsageMinimum") =>
                state_table'.local = [l EXCEPT !.usage_minimum = <<None, Some(item.v)>>]
           /\ ReadsLocal("UsageMaximum") =>
                state_table'.local = [l EXCEPT !.usage_maximum = <<None, Some(item.v)>>]
           /\ (status = "running" /\ seen'.items = seen.items + 1 /\ seen'.last.v.t = "Global")
                => state_table'.local = l
           /\ (Reads("Input") /\ status' = "running") =>
                LET r == TreeFields'[Len(TreeFields')]
                IN  /\ r.usages = [i \in 1..Len(l.usages) |-> Paged(g.usage_page, l.usages[i])]
                    /\ r.usage_minimum = PagedOpt(g.usage_page, l.usage_minimum)
                    /\ r.usage_maximum = PagedOpt(g.usage_page, l.usage_maximum)
           /\ (Reads("Collection") /\ status' = "running") =>
                collection_stack'[Len(collection_stack')].usage = Paged(g.usage_page, l.usages[1])]_vars

\* an Input item has made a Field of a Usage item read while no usage_page was
\* set, a UsagePage 9 item having come between the two: the usage has page 9
C35_Witness ==
    /\ MadeField
    /\ seen.taken = Some(None)
    /\ LastField.usages = <<<<9, 48>>>>
    /\ state_table.global.usage_page = Some(9)

\* C33: an Output, Feature or Reserved Main item leaves bit_offset, the
\* collection stack with every collection's children and the global table as
\* they were, and assembly goes on.
C33_SkippedMainItems ==
    [][(Reads("Output") \/ Reads("Feature") \/ Reads("Reserved")) =>
          /\ bit_offset' = bit_offset
          /\ collection_stack' = collection_stack
          /\ state_table'.global = state_table.global
          /\ status' = "running"]_vars

\* an Output item read after an Input item has made a Field of 16 bits
C33_Witness ==
    /\ LastIs({"Output"})
    /\ status = "running"
    /\ bit_offset = U32(16)
    /\ Len(TreeFields) = 1
    /\ state_table.global.report_size = Some(U32(8))

\* the field of the global table each Global item names
GlobalField ==
    [UsagePage |-> "usage_page", LogicalMinimum |-> "logical_minimum",
     LogicalMaximum |-> "logical_maximum", PhysicalMinimum |-> "physical_minimum",
     PhysicalMaximum |-> "physical_maximum", UnitExponent |-> "unit_exponent",
     Unit |-> "unit", ReportSize |-> "report_size", ReportID |-> "report_id",
     ReportCount |-> "report_count"]

\* C32: a step that reads a Global item naming a field of the global table
\* sets that field to the item's value and leaves the other fields as they
\* were; every other step (a Main item, a Local item, a Global item with a
\* Reserved tag, Push or Pop, the end of the items) leaves the whole global
\* table as it was.
C32_GlobalPersistence ==
    [][IF /\ status = "running"
          /\ seen'.items = seen.items + 1
          /\ seen'.last.v.t = "Global"
          /\ seen'.last.v.i.k \in DOMAIN GlobalField
       THEN state_table'.global =
                [state_table.global EXCEPT
                    ![GlobalField[seen'.last.v.i.k]] = Some(seen'.last.v.i.v)]
       ELSE state_table'.global = state_table.global]_vars

\* a UsagePage item read after an Input item has made a Field: the globals
\* set before the Input item are still in the table
C32_Witness ==
    /\ status = "running"
    /\ seen.last.some
    /\ seen.last.v.t = "Global"
    /\ seen.last.v.i.k = "UsagePage"
    /\ Len(TreeFields) = 1
    /\ state_table.global =
          [GlobalItems_new EXCEPT
              !.usage_page = Some(9),
              !.logical_minimum = Some(0),
              !.logical_maximum = Some(1),
              !.report_size = Some(U32(8)),
              !.report_count = Some(U32(2))]

\* the number of collections of the tree under c, c included
RECURSIVE CollectionsOf(_)
RECURSIVE CollectionsOfItems(_)
CollectionsOf(c) == 1 + CollectionsOfItems(c.items)
CollectionsOfItems(items) ==
    IF items = <<>> THEN 0
    ELSE (IF Head(items).tag = "Collection" THEN CollectionsOf(Head(items).c) ELSE 0)
            + CollectionsOfItems(Tail(items))

\* C37: when assembly returns a tree, every Collection opened by a Collection
\* item and every Field made by an Input item is in the returned tree, also
\* when the items end with fewer EndCollection than Collection items.
C37_NoFieldLost ==
    status = "returned" =>
        /\ CollectionsOf(result.v) = seen.collections
        /\ Len(FieldsOf(result.v)) = Len(seen.inputs)

\* C38: an Input item processed while no Collection item has been read (the
\* globals it needs being set) makes assembly end with an error: it makes no
\* Field, does not advance bit_offset and does not abort.
C38_InputOutsideCollection ==
    (LastIs({"Input"}) /\ seen.collections = 0 /\ MissingGlobal(state_table.global) = "none") =>
        /\ status = "error"
        /\ seen.inputs = <<>>
        /\ bit_offset = Zero32

\* C39: an Input item read inside a collection with its globals set either
\* makes assembly end with an error or leaves bit_offset at the exact sum
\* of report_count * report_size over the Input items read; it never aborts
\* and bit_offset never wraps around 2^32.
C39_OffsetNoWrap ==
    (LastIs({"Input"}) /\ collection_stack # <<>> /\ MissingGlobal(state_table.global) = "none") =>
        /\ status \in {"running", "error"}
        /\ status = "running" => bit_offset = ExactOffset(seen.inputs, Len(seen.inputs))

(***************************************************************************)
(* Claims about the decoder.                                               *)
(***************************************************************************)
\* d is c with every Field replaced, in place, by the list lists gives for it:
\* the same collection type and usage, as many items, a collection where c has
\* a collection and one list where c has a Field
RECURSIVE SameShape(_, _, _)
SameShape(c, d, lists) ==
    /\ d.collection_type = c.collection_type
    /\ d.usage = c.usage
    /\ Len(d.items) = Len(c.items)
    /\ \A i \in 1..Len(c.items) :
          IF c.items[i].tag = "Collection"
          THEN d.items[i].tag = "Collection" /\ SameShape(c.items[i].c, d.items[i].c, lists)
          ELSE d.items[i].tag = "Item" /\ d.items[i].r = lists[c.items[i].r]

RECURSIVE HasCollection(_)
HasCollection(items) ==
    items # <<>> /\ (Head(items).tag = "Collection" \/ HasCollection(Tail(items)))

\* C8: when parse_input returns, the tree it returns has the collection type,
\* the usage and the number of children of the Field tree at every collection,
\* child collections stay collections at their index, and every Field is
\* replaced at its index by the one list of Input leaves Report::parse made of
\* it.  The map of collection.rs does the same whenever its closure returns
\* Some list for every Field.
C8_ShapePreservation ==
    (decoded.some /\ ~decoded.v.panic) =>
        LET fields == FieldSet(parser.collection)
            lists == [r \in fields |-> parser_Report_parse(build, r, input_report).inputs]
        IN  /\ SameShape(parser.collection, decoded.v.tree, lists)
            /\ SameShape(parser.collection,
                         Collection_map_opt(parser.collection,
                                            [r \in fields |-> Some(lists[r])]),
                         lists)

\* a report decoded against a tree with a nested collection, a Constant Field
\* and a Field with controls
C8_Witness ==
    /\ decoded.some
    /\ ~decoded.v.panic
    /\ HasCollection(parser.collection.items)
    /\ \E r \in FieldSet(parser.collection) : r.report_type.flags.lo % 2 = 1
    /\ \E i \in 1..Len(FieldsOf(decoded.v.tree)) : Len(FieldsOf(decoded.v.tree)[i]) > 1

BitAt(report, k) == (report[(k \div 8) + 1] \div (2 ^ (k % 8))) % 2 = 1

\* the bits [at, at + n) of the buffer as a number
FieldBits(report, at, n) == FromBits({j \in 0..(n - 1) : BitAt(report, at + j)})

\* the number whose n-bit two's-complement encoding bits is
SignExtend(bits, n) ==
    IF n = 32 THEN AsI32(bits)
    ELSE IF ToNat(bits) >= 2 ^ (n - 1) THEN (ToNat(bits) - 2 ^ (n - 1)) - 2 ^ (n - 1)
    ELSE ToNat(bits)

\* the value the bits of a control of r stand for
Classified(r, bits) ==
    IF r.logical_minimum = 0 /\ r.logical_maximum = 1 THEN [k |-> "Bool", v |-> bits # Zero32]
    ELSE IF r.logical_minimum >= 0 /\ r.logical_maximum >= 0 THEN [k |-> "UInt", v |-> bits]
    ELSE [k |-> "Int", v |-> SignExtend(bits, ToNat(r.report_size))]

IsConstant(r) == r.report_type.flags.lo % 2 = 1

\* a call of Report::parse on a Field that is not Constant has returned
Parsed == leaves.some /\ ~leaves.v.out.panic /\ ~IsConstant(leaves.v.field)

\* the bits of control i of the Field parsed
ControlBits(i) ==
    FieldBits(input_report,
              ToNat(leaves.v.field.bit_offset) + i * ToNat(leaves.v.field.report_size),
              ToNat(leaves.v.field.report_size))

\* C12: every leaf of a Field that is not Constant holds Bool(bits # 0) when
\* the logical bounds are (0, 1), UInt(bits) when both bounds are >= 0, and
\* Int(the sign extension of bits from report_size) otherwise, bits being the
\* report_size bits of the control in the buffer.
C12_ValueClassification ==
    Parsed =>
        \A i \in 0..(Len(leaves.v.out.inputs) - 1) :
            leaves.v.out.inputs[i + 1].value = Classified(leaves.v.field, ControlBits(i))

\* C13: a Field that is not Constant, with n >= 1 usages and no
\* usage_minimum: leaf i carries usages[i] when i < n and the last usage,
\* usages[n - 1], from n on.
C13_StickyLastUsage ==
    (Parsed /\ Len(leaves.v.field.usages) >= 1 /\ ~leaves.v.field.usage_minimum.some) =>
        LET us == leaves.v.field.usages
        IN  \A i \in 0..(Len(leaves.v.out.inputs) - 1) :
                leaves.v.out.inputs[i + 1].usage
                    = (IF i < Len(us) THEN us[i + 1] ELSE us[Len(us)])

\* three leaves of a Field with two usages: the second usage is on the third
\* leaf too
C13_Witness ==
    /\ Parsed
    /\ ~leaves.v.field.usage_minimum.some
    /\ leaves.v.field.usages = <<<<1, 48>>, <<1, 49>>>>
    /\ Len(leaves.v.out.inputs) = 3
    /\ leaves.v.out.inputs[2].usage = <<1, 49>>
    /\ leaves.v.out.inputs[3].usage = <<1, 49>>

\* C14: a Field that is not Constant, with usage_minimum (page, m): every leaf
\* i from the number of usages on carries the usage (page, m + i), whatever
\* the number of usages is.
C14_UsageMinimumExpansion ==
    (Parsed /\ leaves.v.field.usage_minimum.some) =>
        LET page == leaves.v.field.usage_minimum.v[1]
            m == leaves.v.field.usage_minimum.v[2]
        IN  \A i \in Len(leaves.v.field.usages)..(Len(leaves.v.out.inputs) - 1) :
                leaves.v.out.inputs[i + 1].usage = <<page, m + i>>

\* C15: a Field with usage_minimum and usage_maximum: no leaf that takes its
\* usage from the usage-minimum rule carries a usage id above usage_maximum's,
\* nor one below usage_minimum's (an id that wrapped around 16 bits).
C15_UsageMaximumBound ==
    (Parsed /\ leaves.v.field.usage_minimum.some /\ leaves.v.field.usage_maximum.some) =>
        \A i \in Len(leaves.v.field.usages)..(Len(leaves.v.out.inputs) - 1) :
            /\ leaves.v.out.inputs[i + 1].usage[2] <= leaves.v.field.usage_maximum.v[2]
            /\ leaves.v.out.inputs[i + 1].usage[2] >= leaves.v.field.usage_minimum.v[2]

\* decoding has failed with the error e
DecodeError(e) == decoded.some /\ decoded.v = [panic |-> FALSE, error |-> e]

\* all the leaves of a decoded tree, in order
AllLeaves(tree) == Flatten(FieldsOf(tree))

\* r read behind a Report ID byte
Behind(r) == [r EXCEPT !.bit_offset = U32(ToNat(@) + 8)]

\* the leaves of the Fields among fields whose report_id is id, read behind
\* the Report ID byte; those of all of them, read from bit 0, when id is None
RECURSIVE RoutedLeaves(_, _)
RoutedLeaves(fields, id) ==
    IF fields = <<>> THEN <<>>
    ELSE (IF ~id.some THEN parser_Report_parse(build, Head(fields), input_report).inputs
          ELSE IF Head(fields).report_id = id
          THEN parser_Report_parse(build, Behind(Head(fields)), input_report).inputs
          ELSE <<>>)
         \o RoutedLeaves(Tail(fields), id)

\* C16: when a Field of the tree carries a report_id, a buffer whose first
\* byte is id decodes to the leaves of the Fields with that report_id alone,
\* read from bit offset 8 + bit_offset, and decoding fails with
\* ReportIdMismatch when no Field has that id; when no Field carries a
\* report_id the buffer is read from bit 0.
C16_ReportIdRouting ==
    decoded.some =>
        LET fields == FieldsOf(parser.collection)
            ids == {fields[k].report_id : k \in 1..Len(fields)} \ {None}
        IN  IF ids = {}
            THEN ~decoded.v.panic => AllLeaves(decoded.v.tree) = RoutedLeaves(fields, None)
            ELSE IF input_report # <<>> /\ Some(input_report[1]) \in ids
            THEN ~decoded.v.panic =>
                    AllLeaves(decoded.v.tree) = RoutedLeaves(fields, Some(input_report[1]))
            ELSE DecodeError("ReportIdMismatch")

\* the bits of the first n Fields of fields whose report_id is id
RECURSIVE BitsOfReport(_, _, _)
BitsOfReport(fields, id, n) ==
    IF n = 0 THEN 0
    ELSE BitsOfReport(fields, id, n - 1)
            + (IF fields[n].report_id = id
               THEN ToNat(fields[n].report_size) * ToNat(fields[n].report_count)
               ELSE 0)

\* C34: in the tree the parser holds, a Field's bit_offset is the sum of
\* report_size * report_count over the earlier Fields with the same report_id
\* alone; so the first Field of a Report ID has bit_offset 0.
C34_PerReportIdOffsets ==
    LET fields == FieldsOf(parser.collection)
    IN  \A k \in 1..Len(fields) :
            ToNat(fields[k].bit_offset) = BitsOfReport(fields, fields[k].report_id, k - 1)

\* the call of Report::parse has returned the error e
ParseError(e) == leaves.some /\ leaves.v.out = [panic |-> FALSE, error |-> e]

\* the Field has bits, [bit_offset, bit_offset + report_count * report_size),
\* and they do not all lie in the buffer
PastTheEnd(r, report) ==
    /\ ToNat(r.report_count) * ToNat(r.report_size) > 0
    /\ ToNat(r.bit_offset) + ToNat(r.report_count) * ToNat(r.report_size) > 8 * Len(report)

\* C17: Report::parse of a Field that is not Constant and whose bit range
\* extends past the end of the buffer returns the error ReportTooShort.
C17_ReportTooShort ==
    (leaves.some /\ ~IsConstant(leaves.v.field) /\ PastTheEnd(leaves.v.field, input_report))
        => ParseError("ReportTooShort")

\* the number a classified value holds
NumberOf(value) ==
    CASE value.k = "Bool" -> (IF value.v THEN 1 ELSE 0)
      [] value.k = "UInt" -> ToNat(value.v)
      [] OTHER -> value.v

\* C18: in a Field whose Input flags have bit 6 (Null State) set, a control
\* whose value lies outside [logical_minimum, logical_maximum] decodes to
\* None, and one whose value lies inside decodes to its Bool, UInt or Int.
C18_NullState ==
    (Parsed /\ (leaves.v.field.report_type.flags.lo \div 64) % 2 = 1) =>
        \A i \in 0..(Len(leaves.v.out.inputs) - 1) :
            LET r == leaves.v.field
                value == Classified(r, ControlBits(i))
            IN  leaves.v.out.inputs[i + 1].value
                  = (IF NumberOf(value) < r.logical_minimum \/ NumberOf(value) > r.logical_maximum
                     THEN [k |-> "None"]
                     ELSE value)

\* C40: for every Field the assembler can produce (a Field that is not
\* Constant, has controls and neither usages nor a usage minimum among them)
\* and every report buffer long enough to cover the Field's bit range,
\* Report::parse returns report_count leaves without an out-of-range index or
\* arithmetic underflow.
C40_DecodeTotal ==
    (leaves.some /\ ~IsConstant(leaves.v.field) /\ ~PastTheEnd(leaves.v.field, input_report)) =>
        /\ ~leaves.v.out.panic
        /\ Len(leaves.v.out.inputs) = ToNat(leaves.v.field.report_count)

(***************************************************************************)
(* Claims about the joystick descriptor of the tests.                      *)
(***************************************************************************)
\* report_size, report_count and bit_offset of the six Fields
JoystickLayout ==
    <<<<10, 2, 0>>, <<8, 1, 20>>, <<8, 2, 28>>, <<1, 14, 44>>, <<4, 1, 58>>, <<2, 1, 62>>>>

OfJoystick ==
    ~JoystickParser[build].panic
        /\ parser = [collection |-> JoystickParser[build].collection]

\* C29: assembling the 101-byte joystick descriptor yields a root Application
\* collection with usage (1, 4) whose only child is a Physical collection with
\* usage (1, 1) holding exactly six Fields, in order, of the sizes, counts and
\* bit offsets of JoystickLayout; the fifth has logical bounds 1..8 and flag
\* bit 6 set, the sixth has flag bit 0 set, and decoding a 64-byte all-zero
\* report against it succeeds.
C29_JoystickScenario ==
    /\ Len(JOYSTICK) = 101
    /\ ~JoystickParser[build].panic
    /\ OfJoystick =>
          LET root == parser.collection
              child == root.items[1].c
              F == [k \in 1..6 |-> child.items[k].r]
          IN  /\ root.collection_type = [ct |-> "Application"]
              /\ root.usage = <<1, 4>>
              /\ Len(root.items) = 1
              /\ root.items[1].tag = "Collection"
              /\ child.collection_type = [ct |-> "Physical"]
              /\ child.usage = <<1, 1>>
              /\ Len(child.items) = 6
              /\ \A k \in 1..6 :
                    /\ child.items[k].tag = "Item"
                    /\ <<ToNat(F[k].report_size), ToNat(F[k].report_count),
                         ToNat(F[k].bit_offset)>> = JoystickLayout[k]
              /\ F[5].logical_minimum = 1 /\ F[5].logical_maximum = 8
              /\ (F[5].report_type.flags.lo \div 64) % 2 = 1
              /\ F[6].report_type.flags.lo % 2 = 1
              /\ (input_report = ZeroReport /\ decoded.some) => ~decoded.v.panic
              /\ (input_report = ZeroReport /\ leaves.some) => ~leaves.v.out.panic

\* the all-zero report decoded against the joystick's tree: two axes, then
\* fourteen buttons
C29_Witness ==
    /\ OfJoystick
    /\ input_report = ZeroReport
    /\ decoded.some
    /\ ~decoded.v.panic
    /\ Len(AllLeaves(decoded.v.tree)) = 2 + 1 + 2 + 14 + 1
    /\ Len(FieldsOf(decoded.v.tree)[4]) = 14

(***************************************************************************)
(* Claims about Report::signed.                                            *)
(***************************************************************************)
\* C11: for every length in 1..32 and every number v of that many bits,
\* Report::signed of the length-bit two's-complement encoding of v (upper bits
\* zero) returns v, without a panic.
C11_SignExtensionRoundTrip ==
    (ret.some /\ call.fn = "signed" /\ call.file = "report.rs") =>
        ret.v = [panic |-> FALSE, value |-> call.number]

\* the least 32-bit number has been converted
C11_Witness ==
    /\ ret.some
    /\ call.fn = "signed"
    /\ call.file = "report.rs"
    /\ call.length = 32
    /\ call.number = MinOf(32)
    /\ ret.v.value < 0

C25_CollectionTypeMapping ==
    (call.fn = "Collection_new" /\ ret.some) =>
        LET n == call.data
        IN  ret.v =
              IF n <= 6
              THEN [ct |-> <<"Physical", "Application", "Logical", "Report", "NamedArray",
                             "UsageSwitch", "UsageModifier">>[n + 1]]
              ELSE IF n <= 127 THEN [ct |-> "Reserved"]
              ELSE [ct |-> "Vendor", n |-> n]

====
